---- MODULE Spec2Model ----
(***************************************************************************)
(* Model of aster/inspect.go: the declaration collector, the two-phase     *)
(* method binder and the file / package / module type lookup.              *)
(*                                                                         *)
(* Strings that the code inspects character by character (type names with  *)
(* leading "*" and a qualifying ".") are sequences of tokens: "*" and "."  *)
(* are tokens of their own and an identifier is one token.                 *)
(* A source position (token.Pos) is the path of the node in the file:      *)
(* <<declaration index, index inside the declaration>>.                    *)
(***************************************************************************)
EXTENDS Integers, Sequences, FiniteSets, TLC

VARIABLES
    ast,        \* file -> parsed declarations of the file (f.File.Decls)
    pkg,        \* file -> owning package, NoPkg when f.pkg == nil
    attached,   \* packages whose module field is not nil
    modPkgs,    \* mod.Pkgs: package name -> package
    imports,    \* file -> f.Imports
    Funcs,      \* file -> f.Funcs (position -> FuncNode)
    Types,      \* file -> f.Types (position -> TypeNode)
    pc,         \* position inside Package.collectNodes
    todo,       \* files the running loop of Package.collectNodes has not visited
    passes,     \* binder passes completed over the package
    ret,        \* result of the last lookup call
    srcList,    \* the field list as the parser built it
    fieldList,  \* the ast.FieldList handed to the field normalizer
    funcFields, \* result of the last expandFuncFields call
    expands     \* number of expandFields calls applied to fieldList

vars == <<ast, pkg, attached, modPkgs, imports, Funcs, Types, pc, todo,
          passes, ret, srcList, fieldList, funcFields, expands>>

\* what the parser and the module loader built
input == <<ast, pkg, attached, modPkgs, imports, srcList>>

----------------------------------------------------------------------------
(* Bounds of the model *)

MaxDecls == 2       \* declarations of a file parsed on its own
MaxPkgDecls == 3    \* declarations of a package, over all its files
MaxScopeDecls == 2  \* declarations of a package whose names are looked up
MaxExpands == 2     \* expandFields calls on one field list
MaxStars == 2       \* pointer indirections in front of a type expression
MaxGroups == 2      \* field groups per field list
MaxNames == 3       \* names per field group
MaxPasses == 2      \* binder passes over one package
MaxImports == 2     \* entries of a file's import table

----------------------------------------------------------------------------
(* Strings *)

RECURSIVE Stars(_)
Stars(n) == IF n = 0 THEN <<>> ELSE <<"*">> \o Stars(n - 1)

\* strings.TrimLeft(s, c) for a one-character cutset
RECURSIVE TrimLeft(_, _)
TrimLeft(s, c) ==
    IF s # <<>> /\ Head(s) = c THEN TrimLeft(Tail(s), c) ELSE s

\* strings.Contains(s, c) for a one-character substring
Contains(s, c) == \E i \in 1..Len(s) : s[i] = c

\* strings.SplitN(s, c, 2)
SplitN2(s, c) ==
    IF ~Contains(s, c) THEN <<s>>
    ELSE LET i == CHOOSE k \in 1..Len(s) :
                      s[k] = c /\ \A j \in 1..(k - 1) : s[j] # c
         IN  <<SubSeq(s, 1, i - 1), SubSeq(s, i + 1, Len(s))>>

\* all orders in which a range statement can visit the finite set S
RECURSIVE Orders(_)
Orders(S) ==
    IF S = {} THEN {<<>>}
    ELSE UNION {{<<x>> \o o : o \in Orders(S \ {x})} : x \in S}

\* m[k] = v of a Go map
Put(m, k, v) == [x \in (DOMAIN m) \cup {k} |-> IF x = k THEN v ELSE m[x]]

EmptyMap == [x \in {} |-> x]

----------------------------------------------------------------------------
(* Syntax trees (go/ast) *)

NoDoc == "nil"              \* a nil *ast.CommentGroup
NoPos == 0                  \* token.NoPos
NotDecl == -1               \* the assign sentinel of a non type declaration

NilExpr == [shape |-> "nil", stars |-> 0, pkg |-> "", name |-> "", fields |-> <<>>]
Ident(n) == [shape |-> "Ident", stars |-> 0, pkg |-> "", name |-> n, fields |-> <<>>]
Selector(p, n) == [shape |-> "SelectorExpr", stars |-> 0, pkg |-> p, name |-> n, fields |-> <<>>]
Elem(s, n) == [shape |-> s, stars |-> 0, pkg |-> "", name |-> n, fields |-> <<>>]
StructType(fl) == [shape |-> "StructType", stars |-> 0, pkg |-> "", name |-> "", fields |-> fl]
Star(e) == [e EXCEPT !.stars = @ + 1]

\* a field tag literal (*ast.BasicLit); NoTag is the nil literal
Tag(v, p) == [ValuePos |-> p, Kind |-> "STRING", Value |-> v]
NoTag == [ValuePos |-> NoPos, Kind |-> "nil", Value |-> ""]

Group(names, type, tag) == [Names |-> names, Type |-> type, Tag |-> tag]

\* getElem: strip every leading *ast.StarExpr
getElem(e) == [e EXCEPT !.stars = 0]

\* the type assertion e.(*ast.StructType)
IsStructType(e) == e.shape = "StructType" /\ e.stars = 0

\* format.Node of a type expression
Format(e) ==
    Stars(e.stars) \o
    CASE e.shape = "Ident" -> <<e.name>>
      [] e.shape = "SelectorExpr" -> <<e.pkg, ".", e.name>>
      [] e.shape = "ArrayType" -> <<"[]", e.name>>
      [] e.shape = "ChanType" -> <<"chan ", e.name>>
      [] e.shape = "MapType" -> <<"map[string]", e.name>>
      [] e.shape = "InterfaceType" -> <<"interface{}">>
      [] e.shape = "StructType" -> <<"struct{}">>
      [] e.shape = "FuncType" -> <<"func()">>
      [] OTHER -> <<>>

\* TryFormat without a default value: the text, empty when formatting fails
TryFormat(e) == Format(e)

----------------------------------------------------------------------------
(* Field normalizer *)

\* cloneBasicLit: a new literal of the same kind and value, without position
cloneBasicLit(b) ==
    IF b = NoTag THEN NoTag
    ELSE [ValuePos |-> NoPos, Kind |-> b.Kind, Value |-> b.Value]

\* the fields appended for g.Names[1:]
RECURSIVE restFields(_, _)
restFields(g, names) ==
    IF names = <<>> THEN <<>>
    ELSE <<Group(<<Head(names)>>, g.Type, cloneBasicLit(g.Tag))>>
         \o restFields(g, Tail(names))

\* expandFields without the statement g.Names = g.Names[:1]
RECURSIVE expandFieldsKeepNames(_)
expandFieldsKeepNames(list) ==
    IF list = <<>> THEN <<>>
    ELSE LET g == Head(list)
         IN  (IF Len(g.Names) > 1
              THEN <<g>> \o restFields(g, Tail(g.Names))
              ELSE <<g>>)
             \o expandFieldsKeepNames(Tail(list))

\* expandFields: the new fieldList.List
RECURSIVE expandFields(_)
expandFields(list) ==
    IF list = <<>> THEN <<>>
    ELSE LET g == Head(list)
         IN  (IF Len(g.Names) > 1
              THEN <<[g EXCEPT !.Names = SubSeq(g.Names, 1, 1)]>>
                   \o restFields(g, Tail(g.Names))
              ELSE <<g>>)
             \o expandFields(Tail(list))

FuncField(name, typeName) == [Name |-> name, TypeName |-> typeName]

RECURSIVE namedFuncFields(_, _)
namedFuncFields(names, typeName) ==
    IF names = <<>> THEN <<>>
    ELSE <<FuncField(Head(names), typeName)>>
         \o namedFuncFields(Tail(names), typeName)

\* File.expandFuncFields; a nil field list is the empty list
RECURSIVE expandFuncFields(_)
expandFuncFields(list) ==
    IF list = <<>> THEN <<>>
    ELSE LET g == Head(list)
             typeName == TryFormat(g.Type)
         IN  (IF Len(g.Names) = 0
              THEN <<FuncField("", typeName)>>
              ELSE namedFuncFields(g.Names, typeName))
             \o expandFuncFields(Tail(list))

----------------------------------------------------------------------------
(* Syntax tree nodes *)

FuncDecl(name, doc, recv, params, results, body) ==
    [node |-> "FuncDecl", Name |-> name, Doc |-> doc, Recv |-> recv,
     Params |-> params, Results |-> results, Body |-> body]
GenDecl(doc, specs) == [node |-> "GenDecl", Doc |-> doc, Specs |-> specs]
FuncLit == [node |-> "FuncLit"]
CompositeLit(type) == [node |-> "CompositeLit", Type |-> type]

TypeSpec(name, doc, assign, type) ==
    [spec |-> "TypeSpec", Name |-> name, Doc |-> doc, Assign |-> assign, Type |-> type]
ValueSpec(names, doc, type) ==
    [spec |-> "ValueSpec", Names |-> names, Doc |-> doc, Type |-> type]
ImportSpec == [spec |-> "ImportSpec"]

----------------------------------------------------------------------------
(* Type entities *)

\* the name held by an entity: the empty string when namePtr is nil
NameOf(namePtr) == IF namePtr = "" THEN <<>> ELSE <<namePtr>>

newFuncType(namePtr, doc, pos, recv, params, results) ==
    [kind |-> "Func", name |-> NameOf(namePtr), pos |-> pos, doc |-> doc,
     recv |-> recv, params |-> params, results |-> results, methods |-> <<>>]

\* the constructors of the named types other than struct
newType(kind, namePtr, doc, assign, x, pos) ==
    [kind |-> kind, name |-> NameOf(namePtr), pos |-> pos, doc |-> doc,
     assign |-> assign, elem |-> Format(x), methods |-> <<>>]

newBasicOrAliasType(namePtr, doc, assign, x, pos) ==
    newType(IF assign # NoPos THEN "Alias" ELSE "Basic", namePtr, doc, assign, x, pos)

newStructType(namePtr, doc, assign, x, pos) ==
    [kind |-> "Struct", name |-> NameOf(namePtr), pos |-> pos, doc |-> doc,
     assign |-> assign, raw |-> x.fields, fields |-> <<>>, methods |-> <<>>]

\* FuncType.Recv: the receiver field and whether there is one
Recv(m) == [field |-> IF m.recv = <<>> THEN FuncField("", <<>>) ELSE m.recv[1],
            found |-> m.recv # <<>>]

\* StructType.setFields: one field per name of the normalized groups
RECURSIVE structFields(_)
structFields(list) ==
    IF list = <<>> THEN <<>>
    ELSE LET g == Head(list)
         IN  <<[Name |-> IF g.Names = <<>> THEN "" ELSE g.Names[1],
                TypeName |-> TryFormat(g.Type), Tag |-> g.Tag]>>
             \o structFields(Tail(list))

setFields(s) == [s EXCEPT !.fields = structFields(expandFields(s.raw))]

\* TypeNode.addMethod: append the method to the entity's method list
addMethod(t, m) == [t EXCEPT !.methods = Append(@, m)]

----------------------------------------------------------------------------
(* Declaration collector; decls is the syntax tree of one file *)

\* the FuncLit nodes of a function body, visited in order from index k
RECURSIVE funcLits(_, _, _, _)
funcLits(body, d, k, funcs) ==
    IF k > Len(body) THEN funcs
    ELSE funcLits(body, d, k + 1,
             IF body[k].node = "FuncLit"
             THEN Put(funcs, <<d, k>>, newFuncType("", NoDoc, <<d, k>>, <<>>, <<>>, <<>>))
             ELSE funcs)

RECURSIVE collectFuncsFrom(_, _, _)
collectFuncsFrom(decls, d, funcs) ==
    IF d > Len(decls) THEN funcs
    ELSE LET x == decls[d]
         IN  IF x.node = "FuncDecl"
             THEN LET recvs == expandFuncFields(x.Recv)
                      recv == IF Len(recvs) > 0 THEN <<recvs[1]>> ELSE <<>>
                      t == newFuncType(x.Name, x.Doc, <<d, 0>>, recv,
                                       expandFuncFields(x.Params),
                                       expandFuncFields(x.Results))
                  IN  collectFuncsFrom(decls, d + 1,
                          funcLits(x.Body, d, 1, Put(funcs, <<d, 0>>, t)))
             ELSE collectFuncsFrom(decls, d + 1, funcs)

\* File.collectFuncs
collectFuncs(decls) == collectFuncsFrom(decls, 1, EmptyMap)

\* the calls fn(td, doc) made for the specs of one declaration group
RECURSIVE typeSpecCalls(_, _, _, _)
typeSpecCalls(specs, d, k, doc) ==
    IF k > Len(specs) THEN <<>>
    ELSE LET td == specs[k]
         IN  IF td.spec = "TypeSpec"
             THEN LET doc2 == IF td.Doc # NoDoc THEN td.Doc ELSE doc
                  IN  <<[td |-> td, doc |-> doc2, pos |-> <<d, k>>]>>
                      \o typeSpecCalls(specs, d, k + 1, doc2)
             ELSE typeSpecCalls(specs, d, k + 1, doc)

\* File.collectTypeSpecs: the calls of fn, in traversal order
RECURSIVE collectTypeSpecs(_, _)
collectTypeSpecs(decls, d) ==
    IF d > Len(decls) THEN <<>>
    ELSE (IF decls[d].node = "GenDecl"
          THEN typeSpecCalls(decls[d].Specs, d, 1, decls[d].Doc)
          ELSE <<>>)
         \o collectTypeSpecs(decls, d + 1)

\* the callback of collectTypesOtherThanStruct
otherThanStruct(types, node, doc, pos) ==
    LET x == getElem(node.Type)
        mk(kind) == newType(kind, node.Name, doc, node.Assign, x, pos)
    IN  CASE x.shape = "SelectorExpr" -> Put(types, pos, mk("Alias"))
          [] x.shape = "Ident" ->
                 Put(types, pos, newBasicOrAliasType(node.Name, doc, node.Assign, x, pos))
          [] x.shape = "ChanType" -> Put(types, pos, mk("Chan"))
          [] x.shape = "ArrayType" -> Put(types, pos, mk("List"))
          [] x.shape = "MapType" -> Put(types, pos, mk("Map"))
          [] x.shape = "InterfaceType" -> Put(types, pos, mk("Interface"))
          [] OTHER -> types

RECURSIVE applyCalls(_, _)
applyCalls(calls, types) ==
    IF calls = <<>> THEN types
    ELSE applyCalls(Tail(calls),
             otherThanStruct(types, Head(calls).td, Head(calls).doc, Head(calls).pos))

\* File.collectTypesOtherThanStruct
collectTypesOtherThanStruct(decls, types) ==
    applyCalls(collectTypeSpecs(decls, 1), types)

\* the struct literals of a function body
RECURSIVE structLits(_, _, _, _)
structLits(body, d, k, types) ==
    IF k > Len(body) THEN types
    ELSE structLits(body, d, k + 1,
             IF body[k].node = "CompositeLit" /\ IsStructType(body[k].Type)
             THEN Put(types, <<d, k>>,
                      newStructType("", NoDoc, NotDecl, body[k].Type, <<d, k>>))
             ELSE types)

\* the specs of one declaration group in collectStructs
RECURSIVE structSpecs(_, _, _, _, _)
structSpecs(specs, d, k, declDoc, types) ==
    IF k > Len(specs) THEN types
    ELSE LET y == specs[k]
             skip == y.spec = "TypeSpec" /\ y.Type = NilExpr
             assign == CASE y.spec = "TypeSpec" -> y.Assign
                         [] y.spec = "ValueSpec" -> NotDecl
                         [] OTHER -> NoPos
             structName == CASE y.spec = "TypeSpec" -> y.Name
                             [] y.spec = "ValueSpec" -> y.Names[1]
                             [] OTHER -> ""
             t == IF y.spec \in {"TypeSpec", "ValueSpec"} THEN y.Type ELSE NilExpr
             doc == IF y.spec \in {"TypeSpec", "ValueSpec"} /\ y.Doc # NoDoc
                    THEN y.Doc ELSE declDoc
         IN  structSpecs(specs, d, k + 1, declDoc,
                 IF ~skip /\ IsStructType(t)
                 THEN Put(types, <<d, k>>, newStructType(structName, doc, assign, t, <<d, k>>))
                 ELSE types)

RECURSIVE collectStructsFrom(_, _, _)
collectStructsFrom(decls, d, types) ==
    IF d > Len(decls) THEN types
    ELSE LET x == decls[d]
         IN  collectStructsFrom(decls, d + 1,
                 CASE x.node = "GenDecl" -> structSpecs(x.Specs, d, 1, x.Doc, types)
                   [] x.node = "FuncDecl" -> structLits(x.Body, d, 1, types)
                   [] OTHER -> types)

\* File.collectStructs
collectStructs(decls, types) == collectStructsFrom(decls, 1, types)

\* File.setStructFields
setStructFields(types) ==
    [p \in DOMAIN types |->
        IF types[p].kind = "Struct" THEN setFields(types[p]) ELSE types[p]]

----------------------------------------------------------------------------
(* Scope resolver.  A Go map is ranged over in an unspecified order, so an  *)
(* operation that ranges over one yields the set of its possible results.  *)
(* T is the state of the type tables the lookup reads.                     *)

NoPkg == "nil"

\* p.Files
FilesOf(p) == {f \in DOMAIN pkg : pkg[f] = p}

\* a lookup result: the entity is named by its file and position
Found(f, p) == [file |-> f, pos |-> p, found |-> TRUE, fault |-> FALSE]
NotFound == [file |-> "", pos |-> <<>>, found |-> FALSE, fault |-> FALSE]
Fault == [file |-> "", pos |-> <<>>, found |-> FALSE, fault |-> TRUE]

Import(name, path) == [Name |-> name, Path |-> path]

\* File.LookupImports
LookupImports(f, currPkgName) ==
    LET imps == SelectSeq(imports[f], LAMBDA imp : <<imp.Name>> = currPkgName)
    IN  [imports |-> imps, found |-> imps # <<>>]

\* the packages appended by the loop over imps
RECURSIVE importedPkgs(_)
importedPkgs(imps) ==
    IF imps = <<>> THEN <<>>
    ELSE (IF Head(imps).Name \in DOMAIN modPkgs
          THEN <<modPkgs[Head(imps).Name]>> ELSE <<>>)
         \o importedPkgs(Tail(imps))

\* File.LookupPackages after its nil guard: found is the named result that
\* the call of LookupImports assigns
LookupPackagesFrom(f, currPkgName) ==
    LET r == LookupImports(f, currPkgName)
    IN  IF ~r.found THEN [pkgs |-> <<>>, found |-> FALSE, fault |-> FALSE]
        ELSE IF pkg[f] = NoPkg \/ pkg[f] \notin attached
             THEN [pkgs |-> <<>>, found |-> FALSE, fault |-> TRUE]
             ELSE [pkgs |-> importedPkgs(r.imports), found |-> TRUE, fault |-> FALSE]

\* LookupPackages without its nil guard
LookupPackagesUnguarded(f, currPkgName) == LookupPackagesFrom(f, currPkgName)

\* File.LookupPackages
LookupPackages(f, currPkgName) ==
    IF pkg[f] = NoPkg \/ pkg[f] \notin attached
    THEN [pkgs |-> <<>>, found |-> FALSE, fault |-> FALSE]
    ELSE LookupPackagesFrom(f, currPkgName)

\* File.LookupTypeInFile
LookupTypeInFile(T, f, name) ==
    LET hits == {p \in DOMAIN T[f] : T[f][p].name = name}
    IN  IF hits = {} THEN {NotFound} ELSE {Found(f, p) : p \in hits}

\* the loop over the files of a package, visited in the given order
RECURSIVE lookupInFiles(_, _, _)
lookupInFiles(T, order, name) ==
    IF order = <<>> THEN {NotFound}
    ELSE LET r == LookupTypeInFile(T, Head(order), name)
         IN  IF r = {NotFound} THEN lookupInFiles(T, Tail(order), name) ELSE r

\* LookupTypeInPackage that searches the origin file only
LookupTypeInOwnFile(T, f, name) ==
    IF Contains(name, ".") THEN {NotFound}
    ELSE LookupTypeInFile(T, f, TrimLeft(name, "*"))

\* File.LookupTypeInPackage
LookupTypeInPackage(T, f, name) ==
    IF Contains(name, ".") THEN {NotFound}
    ELSE LET n == TrimLeft(name, "*")
         IN  IF pkg[f] = NoPkg THEN LookupTypeInFile(T, f, n)
             ELSE UNION {lookupInFiles(T, o, n) : o \in Orders(FilesOf(pkg[f]))}

\* the loop over pkgs in LookupTypeInModule
RECURSIVE lookupInPkgs(_, _, _)
lookupInPkgs(T, pkgs, name) ==
    IF pkgs = <<>> THEN {NotFound}
    ELSE LET r == UNION {lookupInFiles(T, o, name) : o \in Orders(FilesOf(Head(pkgs)))}
         IN  IF r = {NotFound} THEN lookupInPkgs(T, Tail(pkgs), name) ELSE r

\* File.LookupTypeInModule
LookupTypeInModule(T, f, name) ==
    LET first == LookupTypeInPackage(T, f, name)
        n == TrimLeft(name, "*")
        s == SplitN2(n, ".")
        a == IF Len(s) = 1 THEN << <<".">>, n >> ELSE s
        lp == LookupPackages(f, a[1])
    IN  IF first # {NotFound} THEN first
        ELSE IF lp.fault THEN {Fault}
        ELSE IF ~lp.found THEN {NotFound}
        ELSE lookupInPkgs(T, lp.pkgs, a[2])

----------------------------------------------------------------------------
(* Method binder *)

FuncRef(f, p) == <<f, p>>

\* the loop body of bindMethods that skips a Func some method list holds
bindMethodOnce(T, F, f, p) ==
    LET m == F[f][p]
        recv == Recv(m)
        bound == \E g \in DOMAIN T : \E q \in DOMAIN T[g] :
                     \E i \in 1..Len(T[g][q].methods) :
                         T[g][q].methods[i] = FuncRef(f, p)
    IN  IF ~recv.found \/ bound THEN {T}
        ELSE {IF r.found
              THEN [T EXCEPT ![r.file][r.pos] = addMethod(@, FuncRef(f, p))]
              ELSE T : r \in LookupTypeInPackage(T, f, recv.field.TypeName)}

\* the body of the loop of bindMethods for the Func at position p of file f:
\* the possible type tables afterwards (F is the state of the function tables)
bindMethod(T, F, f, p) ==
    LET m == F[f][p]
        recv == Recv(m)
    IN  IF ~recv.found THEN {T}
        ELSE {IF r.found
              THEN [T EXCEPT ![r.file][r.pos] = addMethod(@, FuncRef(f, p))]
              ELSE T : r \in LookupTypeInPackage(T, f, recv.field.TypeName)}

RECURSIVE bindInOrder(_, _, _, _)
bindInOrder(T, F, f, order) ==
    IF order = <<>> THEN {T}
    ELSE UNION {bindInOrder(T2, F, f, Tail(order)) :
                    T2 \in bindMethod(T, F, f, Head(order))}

\* File.bindMethods: the possible type tables afterwards
bindMethods(T, F, f) ==
    UNION {bindInOrder(T, F, f, o) : o \in Orders(DOMAIN F[f])}

----------------------------------------------------------------------------
(* Operations *)

Packages == {pkg[f] : f \in DOMAIN pkg} \ {NoPkg}

\* the tables File.collectNodes builds before it binds
collectedFuncs(f) == collectFuncs(ast[f])
collectedTypes(f) ==
    setStructFields(collectStructs(ast[f], collectTypesOtherThanStruct(ast[f], EmptyMap)))

\* Package.collectNodes is entered
StartCollect(p) ==
    /\ pc[p] = "idle"
    /\ pc' = [pc EXCEPT ![p] = "collect"]
    /\ todo' = [todo EXCEPT ![p] = FilesOf(p)]
    /\ UNCHANGED <<input, Funcs, Types, passes, ret, fieldList, funcFields, expands>>

\* one iteration of the first loop of Package.collectNodes: f.collectNodes(false)
CollectFile(p, f) ==
    /\ pc[p] = "collect"
    /\ f \in todo[p]
    /\ Funcs' = [Funcs EXCEPT ![f] = collectedFuncs(f)]
    /\ Types' = [Types EXCEPT ![f] = collectedTypes(f)]
    /\ IF todo[p] = {f}
       THEN /\ pc' = [pc EXCEPT ![p] = "bind"]
            /\ todo' = [todo EXCEPT ![p] = FilesOf(p)]
       ELSE /\ pc' = pc
            /\ todo' = [todo EXCEPT ![p] = @ \ {f}]
    /\ UNCHANGED <<input, passes, ret, fieldList, funcFields, expands>>

\* one iteration of the second loop of Package.collectNodes: f.bindMethods()
BindFile(p, f) ==
    /\ pc[p] = "bind"
    /\ f \in todo[p]
    /\ Types' \in bindMethods(Types, Funcs, f)
    /\ IF todo[p] = {f}
       THEN /\ pc' = [pc EXCEPT ![p] = "done"]
            /\ todo' = [todo EXCEPT ![p] = {}]
            /\ passes' = [passes EXCEPT ![p] = @ + 1]
       ELSE /\ pc' = pc
            /\ todo' = [todo EXCEPT ![p] = @ \ {f}]
            /\ passes' = passes
    /\ UNCHANGED <<input, Funcs, ret, fieldList, funcFields, expands>>

\* the binder is run over the package again, without collecting again
Rebind(p) ==
    /\ pc[p] = "done"
    /\ passes[p] < MaxPasses
    /\ pc' = [pc EXCEPT ![p] = "bind"]
    /\ todo' = [todo EXCEPT ![p] = FilesOf(p)]
    /\ UNCHANGED <<input, Funcs, Types, passes, ret, fieldList, funcFields, expands>>

\* File.collectNodes(true) on a file parsed on its own
CollectSingle(f) ==
    /\ pkg[f] = NoPkg
    /\ Funcs' = [Funcs EXCEPT ![f] = collectedFuncs(f)]
    /\ Types' \in bindMethods([Types EXCEPT ![f] = collectedTypes(f)], Funcs', f)
    /\ pc' = [pc EXCEPT ![f] = "done"]
    /\ UNCHANGED <<input, todo, passes, ret, fieldList, funcFields, expands>>

Call(op, f, name, res) == [op |-> op, file |-> f, name |-> name, res |-> res]
NoCall == Call("none", "", <<>>, NotFound)

Returns(call) ==
    /\ ret' = call
    /\ UNCHANGED <<input, Funcs, Types, pc, todo, passes, fieldList, funcFields, expands>>

CallLookupImports(f, name) ==
    Returns(Call("LookupImports", f, name, LookupImports(f, name)))

CallLookupPackages(f, name) ==
    Returns(Call("LookupPackages", f, name, LookupPackages(f, name)))

CallLookupTypeInFile(f, name) ==
    \E r \in LookupTypeInFile(Types, f, name) :
        Returns(Call("LookupTypeInFile", f, name, r))

CallLookupTypeInPackage(f, name) ==
    \E r \in LookupTypeInPackage(Types, f, name) :
        Returns(Call("LookupTypeInPackage", f, name, r))

CallLookupTypeInModule(f, name) ==
    \E r \in LookupTypeInModule(Types, f, name) :
        Returns(Call("LookupTypeInModule", f, name, r))

\* expandFields(fieldList): the list is replaced in place
ExpandFields ==
    /\ expands < MaxExpands
    /\ fieldList' = expandFields(fieldList)
    /\ expands' = expands + 1
    /\ UNCHANGED <<input, Funcs, Types, pc, todo, passes, ret, funcFields>>

\* f.expandFuncFields(fieldList)
ExpandFuncFields ==
    /\ funcFields' = [in |-> fieldList, out |-> expandFuncFields(fieldList)]
    /\ UNCHANGED <<input, Funcs, Types, pc, todo, passes, ret, fieldList, expands>>

----------------------------------------------------------------------------
(* Inputs *)

SeqsUpTo(S, n) == UNION {[1..k -> S] : k \in 0..n}

RECURSIVE StarN(_, _)
StarN(e, n) == IF n = 0 THEN e ELSE Star(StarN(e, n - 1))

IntType == Ident("int")
PointFields == <<Group(<<"X", "Y">>, IntType, NoTag)>>

TypeDecl(name, type) == GenDecl(NoDoc, <<TypeSpec(name, NoDoc, NoPos, type)>>)
VarDecl(name, type) == GenDecl(NoDoc, <<ValueSpec(<<name>>, NoDoc, type)>>)
Method(name, recvNames, recvType) ==
    FuncDecl(name, NoDoc, <<Group(recvNames, recvType, NoTag)>>, <<>>, <<>>, <<>>)
Func(name, body) ==
    FuncDecl(name, NoDoc, <<>>, <<Group(<<"a", "b">>, IntType, NoTag)>>,
             <<Group(<<>>, IntType, NoTag)>>, body)

\* the names of the field groups: runs of distinct names
NamePool == <<"A", "B", "C", "D", "E", "F">>
GroupNames == {SubSeq(NamePool, i, i + k - 1) : i \in 1..2, k \in 0..MaxNames}
FieldGroups ==
    {Group(n, t, g) : n \in GroupNames, t \in {IntType, Star(Ident("T"))},
                      g \in {NoTag, Tag("json", 7)}}
FieldLists == SeqsUpTo(FieldGroups, MaxGroups)

\* declarations of the packages whose methods are bound
DeclsBind ==
    { TypeDecl("T", StructType(PointFields)),
      TypeDecl("T", Elem("FuncType", "")),
      VarDecl("T", StructType(<<>>)),
      Method("Len", <<"p">>, Star(Ident("T"))),
      Method("Val", <<"p">>, Ident("T")),
      Method("Sel", <<>>, Star(Selector("q", "T"))),
      Func("F", <<>>) }

NamesBind == { <<"T">>, <<"*", "T">> }

\* declarations of a file collected on its own
Shapes == { Ident("B"), Selector("q", "B"), Elem("ChanType", "B"),
            Elem("ArrayType", "B"), Elem("MapType", "B"),
            Elem("InterfaceType", ""), Elem("FuncType", ""),
            StructType(PointFields), NilExpr }
DeclsCollect ==
    {TypeDecl("T", StarN(e, n)) : e \in Shapes, n \in 0..MaxStars}
    \cup {GenDecl(g, <<TypeSpec("T", d1, NoPos, e1), TypeSpec("U", d2, 9, e2)>>) :
             g \in {NoDoc, "group"}, d1 \in {NoDoc, "docT"}, d2 \in {NoDoc, "docU"},
             e1 \in {IntType, StructType(<<>>)}, e2 \in {IntType}}
    \cup {GenDecl(NoDoc, <<ImportSpec>>), VarDecl("v", StructType(PointFields)),
          VarDecl("v", IntType),
          Method("Len", <<"p">>, Star(Ident("T"))),
          Func("F", <<FuncLit, CompositeLit(StructType(PointFields)),
                      CompositeLit(Elem("ArrayType", "int"))>>)}

NamesCollect == { <<"T">>, <<"U">>, <<>> }

\* the module of the lookup scenarios: a package is keyed by its name
ModuleNames == {"main", "util", "u"}
ImportsLookup ==
    SeqsUpTo({Import("u", "lib/util"), Import("util", "lib/util"), Import("fmt", "fmt")},
             MaxImports)
NamesLookup ==
    { <<"u", ".", "Widget">>, <<"*", "u", ".", "Widget">>,
      <<"util", ".", "Widget">>, <<"Widget">>, <<".">> }
AliasesLookup == { <<"u">>, <<"util">>, <<".">> }

NoTables(F) == [f \in F |-> EmptyMap]

InitRun ==
    /\ Funcs = NoTables(DOMAIN pkg)
    /\ Types = NoTables(DOMAIN pkg)
    /\ pc = [u \in Packages \cup {f \in DOMAIN pkg : pkg[f] = NoPkg} |-> "idle"]
    /\ todo = [p \in Packages |-> {}]
    /\ passes = [p \in Packages |-> 0]
    /\ ret = NoCall

InitNoFields ==
    /\ srcList = <<>>
    /\ fieldList = <<>>
    /\ funcFields = [in |-> <<>>, out |-> <<>>]
    /\ expands = 0

----------------------------------------------------------------------------
(* The field normalizer on every field list *)

InitFields ==
    /\ srcList \in FieldLists
    /\ fieldList = srcList
    /\ funcFields = [in |-> <<>>, out |-> <<>>]
    /\ expands = 0
    /\ ast = EmptyMap /\ pkg = EmptyMap /\ imports = EmptyMap
    /\ attached = {} /\ modPkgs = EmptyMap
    /\ InitRun

NextFields == ExpandFields \/ ExpandFuncFields

SpecFields == InitFields /\ [][NextFields]_vars

----------------------------------------------------------------------------
(* A file parsed and collected on its own *)

InitCollect ==
    /\ pkg = [f \in {"a.go"} |-> NoPkg]
    /\ ast \in [{"a.go"} -> SeqsUpTo(DeclsCollect, MaxDecls)]
    /\ imports = [f \in {"a.go"} |-> <<>>]
    /\ attached = {} /\ modPkgs = EmptyMap
    /\ InitRun /\ InitNoFields

NextCollect ==
    \/ CollectSingle("a.go")
    \/ \E name \in NamesCollect : CallLookupTypeInFile("a.go", name)

SpecCollect == InitCollect /\ [][NextCollect]_vars

----------------------------------------------------------------------------
(* A package of two files: collection and binder passes *)

\* the package main of a.go and b.go with at most n declarations in all
InitPackage(n) ==
    /\ pkg = [f \in {"a.go", "b.go"} |-> "main"]
    /\ \E m \in 0..n : \E s \in [1..m -> DeclsBind] : \E k \in 0..m :
           ast = [f \in {"a.go", "b.go"} |->
                     IF f = "a.go" THEN SubSeq(s, 1, k) ELSE SubSeq(s, k + 1, m)]
    /\ imports = [f \in {"a.go", "b.go"} |-> <<>>]
    /\ attached = {"main"}
    /\ modPkgs = [x \in attached |-> x]
    /\ InitRun /\ InitNoFields

InitBind == InitPackage(MaxPkgDecls)

NextBind ==
    \/ \E p \in Packages : StartCollect(p)
    \/ \E p \in Packages : \E f \in FilesOf(p) : CollectFile(p, f)
    \/ \E p \in Packages : \E f \in FilesOf(p) : BindFile(p, f)
    \/ \E p \in Packages : Rebind(p)

SpecBind == InitBind /\ [][NextBind]_vars

----------------------------------------------------------------------------
(* A package of two files: collection, one binder pass, then lookups *)

InitScope == InitPackage(MaxScopeDecls)

NextScope ==
    \/ \E p \in Packages : StartCollect(p)
    \/ \E p \in Packages : \E f \in FilesOf(p) : CollectFile(p, f)
    \/ \E p \in Packages : \E f \in FilesOf(p) : BindFile(p, f)
    \/ \E f \in DOMAIN pkg : \E name \in NamesBind :
           pc[pkg[f]] = "done" /\ CallLookupTypeInPackage(f, name)
    \/ \E f \in DOMAIN pkg : \E name \in NamesBind :
           pc[pkg[f]] = "done" /\ CallLookupTypeInModule(f, name)

SpecScope == InitScope /\ [][NextScope]_vars

----------------------------------------------------------------------------
(* A module: a file that imports package util, and lookups through imports *)

AstsLookup ==
    {[f \in {"a.go", "w.go"} |-> IF f = "a.go" THEN a ELSE w] :
        a \in {<<>>, <<TypeDecl("W", Selector("u", "Widget"))>>, <<TypeDecl("Widget", IntType)>>},
        w \in {<<>>, <<TypeDecl("Widget", StructType(PointFields))>>}}

InitLookup ==
    /\ pkg \in {[f \in {"a.go", "w.go"} |-> IF f = "a.go" THEN p ELSE "util"] :
                   p \in {"main", NoPkg}}
    /\ ast \in AstsLookup
    /\ imports \in {[f \in {"a.go", "w.go"} |-> IF f = "a.go" THEN i ELSE <<>>] :
                       i \in ImportsLookup}
    /\ attached \in SUBSET ModuleNames
    /\ modPkgs = [n \in attached |-> n]
    /\ InitRun /\ InitNoFields

NextLookup ==
    \/ \E p \in Packages : StartCollect(p)
    \/ \E p \in Packages : \E f \in FilesOf(p) : CollectFile(p, f)
    \/ \E p \in Packages : \E f \in FilesOf(p) : BindFile(p, f)
    \/ CollectSingle("a.go")
    \/ \E name \in AliasesLookup : CallLookupImports("a.go", name)
    \/ \E name \in AliasesLookup : CallLookupPackages("a.go", name)
    \/ \E name \in NamesLookup : CallLookupTypeInModule("a.go", name)

SpecLookup == InitLookup /\ [][NextLookup]_vars

----------------------------------------------------------------------------
(* Properties of the field normalizer *)

\* one record per declared name of a field list, a nameless group counting
\* as one declared field without a name
RECURSIVE DeclaredFields(_)
DeclaredFields(list) ==
    IF list = <<>> THEN <<>>
    ELSE LET g == Head(list)
             one(n) == [Names |-> n, Type |-> g.Type,
                        Kind |-> g.Tag.Kind, Value |-> g.Tag.Value]
         IN  (IF g.Names = <<>> THEN <<one(<<>>)>>
              ELSE [i \in 1..Len(g.Names) |-> one(<<g.Names[i]>>)])
             \o DeclaredFields(Tail(list))

NameText(names) == IF names = <<>> THEN "" ELSE names[1]

\* C8: field normalization turns a group of k >= 1 names into k single-name
\* fields with the group's type and tag, in declaration order and with the
\* groups in their order; a group without names gives one nameless field;
\* a second expandFields changes nothing; expandFuncFields gives one
\* FuncField per declared name with the text of the group's type.
C8_FieldsNormalized ==
    LET want == DeclaredFields(srcList)
        wantIn == DeclaredFields(funcFields.in)
    IN  /\ expands >= 1 =>
            /\ Len(fieldList) = Len(want)
            /\ \A i \in 1..Len(fieldList) :
                   /\ fieldList[i].Names = want[i].Names
                   /\ fieldList[i].Type = want[i].Type
                   /\ fieldList[i].Tag.Kind = want[i].Kind
                   /\ fieldList[i].Tag.Value = want[i].Value
        /\ expands >= 2 => fieldList = expandFields(srcList)
        /\ Len(funcFields.out) = Len(wantIn)
        /\ \A i \in 1..Len(funcFields.out) :
               /\ funcFields.out[i].Name = NameText(wantIn[i].Names)
               /\ funcFields.out[i].TypeName = Format(wantIn[i].Type)

\* C8 witness: a list with a tagged group of several names and a nameless
\* group has been expanded twice and handed to expandFuncFields
C8_Witness ==
    /\ expands = 2
    /\ \E i \in 1..Len(srcList) :
           Len(srcList[i].Names) >= 2 /\ srcList[i].Tag # NoTag
    /\ \E i \in 1..Len(srcList) : srcList[i].Names = <<>>
    /\ funcFields.in = srcList
    /\ Len(funcFields.out) >= 3
    /\ Len(fieldList) > Len(srcList)

----------------------------------------------------------------------------
(* Properties of the method binder and of the lookup in a package *)

Count(seq, x) == Cardinality({i \in 1..Len(seq) : seq[i] = x})

\* the method declarations of file f, by the shape of the receiver
MethodDecls(f) ==
    {d \in 1..Len(ast[f]) : ast[f][d].node = "FuncDecl" /\ ast[f][d].Recv # <<>>}
RecvType(f, d) == ast[f][d].Recv[1].Type
PointerMethods(f) ==
    {d \in MethodDecls(f) : RecvType(f, d).shape = "Ident" /\ RecvType(f, d).stars = 1}

\* the type declarations named n in the files of package p
TypeSpecsNamed(g, d, n) ==
    IF ast[g][d].node # "GenDecl" THEN {}
    ELSE {k \in 1..Len(ast[g][d].Specs) :
              ast[g][d].Specs[k].spec = "TypeSpec" /\ ast[g][d].Specs[k].Name = n}
TypeDeclsNamed(p, n) ==
    UNION {UNION {{<<g, <<d, k>>>> : k \in TypeSpecsNamed(g, d, n)} :
                     d \in 1..Len(ast[g])} : g \in FilesOf(p)}

\* every entity of the package's type tables comes from a type declaration
FromTypeDecls(p) ==
    \A g \in FilesOf(p) : \A q \in DOMAIN Types[g] : Types[g][q].assign # NotDecl

\* the entities named n in the type tables of the files of package p
EntitiesNamed(p, n) ==
    {x \in UNION {{<<g, q>> : q \in DOMAIN Types[g]} : g \in FilesOf(p)} :
        Types[x[1]][x[2]].name = <<n>>}

MethodsOf(x) == Types[x[1]][x[2]].methods

\* C1 as stated: after Package.collectNodes, a method with receiver *T, T
\* being the name of exactly one type declaration of the package, appears
\* exactly once in the method list of the entity of that declaration.
C1_BoundToDeclaredType ==
    \A p \in Packages : (pc[p] = "done" /\ passes[p] = 1) =>
        \A f \in FilesOf(p) : \A d \in PointerMethods(f) :
            LET decls == TypeDeclsNamed(p, RecvType(f, d).name)
            IN  Cardinality(decls) = 1 =>
                    \A x \in decls :
                        /\ x[2] \in DOMAIN Types[x[1]]
                        /\ Count(MethodsOf(x), FuncRef(f, <<d, 0>>)) = 1

\* C1 amended: after Package.collectNodes, a method with receiver *T, T being
\* the name of exactly one entity of the package's type tables, appears
\* exactly once in the method list of that entity, whatever the order in
\* which the files were collected and bound and whichever file declares T.
C1_BoundToEntity ==
    \A p \in Packages : (pc[p] = "done" /\ passes[p] = 1) =>
        \A f \in FilesOf(p) : \A d \in PointerMethods(f) :
            LET owners == EntitiesNamed(p, RecvType(f, d).name)
            IN  Cardinality(owners) = 1 =>
                    \A x \in owners : Count(MethodsOf(x), FuncRef(f, <<d, 0>>)) = 1

\* C1 witness: the package has been collected and bound once, the method is
\* declared in one file and its receiver type in the other file
C1_Witness ==
    /\ pc["main"] = "done" /\ passes["main"] = 1
    /\ \E d \in PointerMethods("a.go") :
           /\ EntitiesNamed("main", RecvType("a.go", d).name) \subseteq
                  {<<"b.go", q>> : q \in DOMAIN Types["b.go"]}
           /\ \E x \in EntitiesNamed("main", RecvType("a.go", d).name) :
                  /\ Cardinality(EntitiesNamed("main", RecvType("a.go", d).name)) = 1
                  /\ Types[x[1]][x[2]].kind = "Struct"
                  /\ Len(Types[x[1]][x[2]].fields) = 2
                  /\ MethodsOf(x) = <<FuncRef("a.go", <<d, 0>>)>>

\* C2: a lookup of an unqualified name in the package or in the module, made
\* on a file that declares the name itself, returns the entity of that file.
C2_OriginFileFirst ==
    (/\ ret.op \in {"LookupTypeInPackage", "LookupTypeInModule"}
     /\ FromTypeDecls(pkg[ret.file])
     /\ \E x \in TypeDeclsNamed(pkg[ret.file], TrimLeft(ret.name, "*")[1]) :
            x[1] = ret.file /\ x[2] \in DOMAIN Types[ret.file]
     /\ \E x \in TypeDeclsNamed(pkg[ret.file], TrimLeft(ret.name, "*")[1]) :
            x[1] # ret.file)
        => (ret.res.found /\ ret.res.file = ret.file)

\* C4: a method whose receiver is a value or not an identifier is in the
\* function table of its file and in no method list after binding.
C4_OnlyPointerReceiversBound ==
    \A p \in Packages : (pc[p] = "done" /\ FromTypeDecls(p)) =>
        \A f \in FilesOf(p) : \A d \in MethodDecls(f) \ PointerMethods(f) :
            /\ <<d, 0>> \in DOMAIN Funcs[f]
            /\ \A g \in FilesOf(p) : \A q \in DOMAIN Types[g] :
                   Count(Types[g][q].methods, FuncRef(f, <<d, 0>>)) = 0

\* C5 as stated: a second binder pass over the same tables adds no second
\* entry for a Func to any method list.
C5_NoSecondEntry ==
    \A p \in Packages : pc[p] = "done" =>
        \A g \in FilesOf(p) : \A q \in DOMAIN Types[g] :
            \A i, j \in 1..Len(Types[g][q].methods) :
                Types[g][q].methods[i] = Types[g][q].methods[j] => i = j

IsPrefix(s, t) == Len(s) <= Len(t) /\ SubSeq(t, 1, Len(s)) = s

\* C5 amended: binding only appends: no step removes, replaces or reorders an
\* entry of a method list, and every binder pass over the same tables
\* resolves every Func again, so that after k passes a method whose receiver
\* names exactly one entity is k times in the method list of that entity.
C5_AppendOnly ==
    /\ [][\A g \in DOMAIN Types : \A q \in DOMAIN Types[g] :
              /\ q \in DOMAIN Types'[g]
              /\ IsPrefix(Types[g][q].methods, Types'[g][q].methods)]_vars
    /\ [](\A p \in Packages : pc[p] = "done" =>
              \A f \in FilesOf(p) : \A d \in PointerMethods(f) :
                  LET owners == EntitiesNamed(p, RecvType(f, d).name)
                  IN  Cardinality(owners) = 1 =>
                          \A x \in owners :
                              Count(MethodsOf(x), FuncRef(f, <<d, 0>>)) = passes[p])

\* C5 witness: the binder has run twice and a method is twice in a list
C5_Witness ==
    /\ pc["main"] = "done" /\ passes["main"] = 2
    /\ \E g \in DOMAIN Types : \E q \in DOMAIN Types[g] :
           \E f \in DOMAIN ast : \E d \in PointerMethods(f) :
               Count(Types[g][q].methods, FuncRef(f, <<d, 0>>)) = 2

----------------------------------------------------------------------------
(* Properties of the lookup through the import table *)

\* the file has no package or its package has no module
Detached(f) == pkg[f] = NoPkg \/ pkg[f] \notin attached

\* C6: on a file without package or without module, LookupTypeInModule of a
\* dotted name, with or without leading "*", returns not found and no entity
\* and does not fault, whatever the import table and the type tables hold.
C6_NoModuleNotFound ==
    (/\ ret.op = "LookupTypeInModule"
     /\ Contains(ret.name, ".")
     /\ Detached(ret.file))
        => ret.res = NotFound

\* C6 witness: the dotted name was looked up, with a leading "*", on a
\* collected file without package whose import table holds the alias, while
\* the imported package is in the module and declares the name
C6_Witness ==
    /\ ret.op = "LookupTypeInModule"
    /\ ret.name = <<"*", "u", ".", "Widget">>
    /\ pkg[ret.file] = NoPkg
    /\ \E i \in 1..Len(imports[ret.file]) : imports[ret.file][i].Name = "u"
    /\ Types[ret.file] # EmptyMap
    /\ "u" \in DOMAIN modPkgs
    /\ \E q \in DOMAIN Types["w.go"] : Types["w.go"][q].name = <<"Widget">>
    /\ ret.res = NotFound

\* C3: file A imports package util under the alias u, the module maps the
\* name util to the package and a file of util declares Widget: then
\* LookupTypeInModule("u.Widget") on A finds the Widget entity of util.
C3_AliasedImportResolves ==
    (/\ ret.op = "LookupTypeInModule"
     /\ ret.name = <<"u", ".", "Widget">>
     /\ ~Detached(ret.file)
     /\ \E i \in 1..Len(imports[ret.file]) :
            imports[ret.file][i] = Import("u", "lib/util")
     /\ "util" \in DOMAIN modPkgs
     /\ \E q \in DOMAIN Types["w.go"] : Types["w.go"][q].name = <<"Widget">>)
        => /\ ret.res.found
           /\ ret.res.file = "w.go"
           /\ Types["w.go"][ret.res.pos].name = <<"Widget">>

\* C10: LookupPackages returns found exactly when the returned list of
\* packages is not empty.
C10_FoundIffPackages ==
    ret.op = "LookupPackages" => (ret.res.found <=> ret.res.pkgs # <<>>)

----------------------------------------------------------------------------
(* Properties of the declaration collector *)

\* the type specs of the file, as <<declaration index, spec index>>
TypeSpecsOf(f) ==
    UNION {IF ast[f][d].node # "GenDecl" THEN {}
           ELSE {<<d, k>> : k \in {k \in 1..Len(ast[f][d].Specs) :
                                       ast[f][d].Specs[k].spec = "TypeSpec"}} :
           d \in 1..Len(ast[f])}
SpecAt(f, x) == ast[f][x[1]].Specs[x[2]]

\* the struct literals of the function bodies of the file
StructLitsOf(f) ==
    UNION {IF ast[f][d].node # "FuncDecl" THEN {}
           ELSE {<<d, k>> : k \in {k \in 1..Len(ast[f][d].Body) :
                                       /\ ast[f][d].Body[k].node = "CompositeLit"
                                       /\ ast[f][d].Body[k].Type.shape = "StructType"}} :
           d \in 1..Len(ast[f])}

CollectedShapes ==
    {"StructType", "Ident", "SelectorExpr", "ChanType", "ArrayType", "MapType",
     "InterfaceType"}

\* C7: after File.collectNodes the type table holds one entity for every
\* named type declaration whose right-hand side, without its leading
\* pointers, is a struct, identifier, qualified identifier, channel, array,
\* map or interface, and one nameless entity for every struct literal, each
\* under a key of its own.
C7_EveryDeclarationCollected ==
    \A f \in DOMAIN pkg : pc[IF pkg[f] = NoPkg THEN f ELSE pkg[f]] = "done" =>
        /\ \A x \in TypeSpecsOf(f) :
               SpecAt(f, x).Type.shape \in CollectedShapes =>
                   /\ x \in DOMAIN Types[f]
                   /\ Types[f][x].name = <<SpecAt(f, x).Name>>
        /\ \A x \in StructLitsOf(f) :
               x \in DOMAIN Types[f] /\ Types[f][x].name = <<>>
        /\ \A x, y \in DOMAIN Types[f] : Types[f][x].pos = Types[f][y].pos => x = y

\* C9: the documentation collectTypeSpecs passes for a type spec is the doc
\* of the spec when it has one and the doc of the group otherwise.
C9_OwnDocOrGroupDoc ==
    \A f \in DOMAIN pkg : pc[IF pkg[f] = NoPkg THEN f ELSE pkg[f]] = "done" =>
        LET calls == collectTypeSpecs(ast[f], 1)
        IN  \A i \in 1..Len(calls) :
                LET x == calls[i].pos
                IN  calls[i].doc = IF SpecAt(f, x).Doc # NoDoc THEN SpecAt(f, x).Doc
                                   ELSE ast[f][x[1]].Doc

====
